---------------------------- MODULE Spec2Model ----------------------------
(***************************************************************************)
(* A model of src/src/main.py: the extraction of Ethereum transactions and *)
(* Tether Transfer logs (get_transactions, get_logs_tether), the join of   *)
(* the two into df_transactions_complete / df_logs_tether_clean (main) and *)
(* the report queries (transactions_queries, tether_queries).              *)
(*                                                                         *)
(* Conventions                                                             *)
(*  - a Python str / SQL string is a sequence of one-character strings, so *)
(*    that slicing ([-40:]) and case-sensitive comparison are computed;    *)
(*  - a HexBytes value is a sequence of bytes 0..255;                      *)
(*  - a nullable column holds {} for NULL/None and {v} for the value v;    *)
(*  - native amounts are integers counted in 10^15 wei (0.001 ETH), gas    *)
(*    prices in 10^5 wei (1e-13 ETH), token amounts in raw token units     *)
(*    (1e-6 USDT); the binary rounding error of Python floats is not       *)
(*    modelled;                                                            *)
(*  - the chain client (web3) and its data are the variable chain, fixed   *)
(*    by the initial state; a network failure of a call is a separate      *)
(*    action of the environment.                                           *)
(***************************************************************************)
EXTENDS Integers, Sequences, FiniteSets, TLC

VARIABLES
    chain,            \* what the node serves: blocks, logs, head
    pc,               \* position of the program
    from_block,       \* main / parameters of the extractors
    latest_block,
    block_number,     \* get_transactions: loop variable
    block,            \* get_transactions: {} or {the block fetched last}
    tx_i,             \* get_transactions: index of the next tx of block
    transactions,     \* get_transactions: the list being accumulated
    logs,             \* get_logs_tether: the logs returned by get_logs
    log_i,            \* get_logs_tether: index of the next log
    logs_tether,      \* get_logs_tether: the list being accumulated
    views,            \* the Spark session's temporary views, by name
    q,                \* the report: index of the next query of Battery
    output,           \* the tables shown so far, in order
    error,            \* {} or {the exception that ended the run}
    calls             \* history: every call made to the chain client

vars == <<chain, pc, from_block, latest_block, block_number, block, tx_i,
          transactions, logs, log_i, logs_tether, views, q, output, error,
          calls>>

-----------------------------------------------------------------------------
(* Bounds of the model *)

\* highest block number of the chains the extractors are run on
MaxBlock == 2
\* most transactions a block of those chains holds
MaxTxPerBlock == 2
\* bytes of a transaction hash in the model (32 on chain)
HashLen == 2
\* most Tether Transfer logs one transaction emits
MaxLogsPerTx == 2
\* highest block number of the chains the time-between-blocks report is
\* run on
MaxTimeBlock == 3
\* transactions of the chains the watch-list reports are run on
MaxMixerTxs == 5
\* rows of the unified dataset beyond the 10 the top-10 report keeps
MaxExtraRows == 1
\* Transfer logs of the chains the burn query is run on
MaxBurnLogs == 2
\* logs of the chains the extraction of the logs is followed on
MaxFilterLogs == 3
\* the raw token amounts tried are 2500 * k and 2500 * k + 1, k up to this
MaxRawSteps == 20

-----------------------------------------------------------------------------
(* Strings, bytes, hex *)

HexChars == <<"0","1","2","3","4","5","6","7","8","9","a","b","c","d","e","f">>

\* bytes.hex() of one byte: two lower-case hex digits
HexOfByte(b) == <<HexChars[(b \div 16) + 1], HexChars[(b % 16) + 1]>>

\* HexBytes.hex(): lower-case hex digits, no prefix
RECURSIVE Hex(_)
Hex(bytes) ==
    IF bytes = <<>> THEN <<>>
    ELSE HexOfByte(Head(bytes)) \o Hex(Tail(bytes))

\* s[-n:] of Python
LastChars(s, n) == IF Len(s) <= n THEN s ELSE SubSeq(s, Len(s) - n + 1, Len(s))

\* int.from_bytes(data, byteorder='big')
RECURSIVE FromBytesBig(_)
FromBytesBig(data) ==
    IF data = <<>> THEN 0
    ELSE 256 * FromBytesBig(SubSeq(data, 1, Len(data) - 1)) + data[Len(data)]

RECURSIVE SumSeq(_)
SumSeq(s) == IF s = <<>> THEN 0 ELSE Head(s) + SumSeq(Tail(s))

RECURSIVE Flatten(_)
Flatten(ss) == IF ss = <<>> THEN <<>> ELSE Head(ss) \o Flatten(Tail(ss))

-----------------------------------------------------------------------------
(* Addresses as the chain client returns them *)

\* web3 returns the addresses of a transaction ('from', 'to') in EIP-55
\* checksum form: the hex digits a..f are upper-cased where the keccak-256
\* of the lower-case address says so (the form w3.to_checksum_address gives
\* the Tether contract address on line 74).  The two watch-list addresses
\* used as senders, one other address and the all-zero address:
ChecksumX == <<"0","x","5","F","4","b","5","e","8","e","6","8","9","4","E","7","B","9","4","b","9","B","0","D","7","b","2","8","b","8","0","1","1","C","1","8","C","0","4","e","1","d">>
ChecksumY == <<"0","x","8","f","A","7","A","7","E","8","F","7","9","d","3","d","E","8","8","F","8","F","3","C","F","E","6","9","3","2","5","4","2","5","f","9","4","c","1","2","c","F">>
ChecksumTether == <<"0","x","d","A","C","1","7","F","9","5","8","D","2","e","e","5","2","3","a","2","2","0","6","2","0","6","9","9","4","5","9","7","C","1","3","D","8","3","1","e","c","7">>
ChecksumPlain == <<"0","x">> \o [i \in 1..40 |-> "1"]


-----------------------------------------------------------------------------
(* The chain the client serves *)

\* the hash of the i-th transaction of block n: distinct per (n, i)
TxHash(n, i) == [k \in 1..HashLen |-> IF k = 1 THEN n ELSE IF k = 2 THEN i ELSE 0]

\* a chain of the blocks 0..head: ts[n] the timestamp and txs[n] the
\* transactions of block n, lgs the event logs in chain order
Chain(head, ts, txs, lgs) ==
    [head |-> head,
     blocks |-> [n \in 0..head |-> [timestamp |-> ts[n], transactions |-> txs[n]]],
     logs |-> lgs]

\* one transaction body with its receipt's gasUsed, as the node holds it
ChainTx(n, i, from, to, value) ==
    [hash |-> TxHash(n, i), from |-> from, to |-> to, value |-> value,
     gasPrice |-> 20000 + n, gasUsed |-> 21000 + i]

\* the chains get_transactions is run on: blocks 0..MaxBlock, 12 s apart,
\* block n holding counts[n] transactions; every second one creates a
\* contract (tx['to'] is None)
TxChain(counts) ==
    [head |-> MaxBlock,
     blocks |-> [n \in 0..MaxBlock |->
        [timestamp |-> 1000 + 12 * n,
         transactions |-> [i \in 1..counts[n] |->
            ChainTx(n, i,
                    IF i % 2 = 1 THEN ChecksumX ELSE ChecksumPlain,
                    IF i % 2 = 1 THEN {ChecksumY} ELSE {},
                    10 * n + i)]]],
     logs |-> <<>>]

TxChains == {TxChain(counts) : counts \in [0..MaxBlock -> 0..MaxTxPerBlock]}

-----------------------------------------------------------------------------
(* get_transactions *)

\* range(from_block, latest_block + 1)
BlockRangeShort(a, b) == a..(b - 1)
BlockRange(a, b) == a..b

\* the dict appended for one transaction (lines 37-51).  The divisions by
\* wei_to_eth change the unit, not the number: value is counted in
\* 0.001 ETH, gas_price and gas_fee in 1e-13 ETH
TxRecord(n, blk, tx, receipt) ==
    LET gas_price == tx.gasPrice
        gas_used  == receipt.gasUsed
        gas_fee   == gas_price * gas_used
    IN  [block_number     |-> n,
         timestamp        |-> blk.timestamp,
         from_address     |-> tx.from,
         to_address       |-> tx.to,
         value            |-> tx.value,
         transaction_hash |-> Hex(tx.hash),
         gas_price        |-> gas_price,
         gas_used         |-> gas_used,
         gas_fee          |-> gas_fee]

\* transactions.append(...)
AppendRecord(list, rec) == Append(list, rec)

\* createOrReplaceTempView(name) on a DataFrame of these rows
RegisterView(name, rows) == (name :> rows) @@ views

\* an except clause that records the error and lets the run go on
RaiseAndContinue(e) == /\ pc' = pc
                       /\ error' = {e}
Raise(e) == /\ pc' = "raised"
            /\ error' = {e}

\* line 30 succeeds: the block is served
FetchBlock ==
    /\ pc = "get_transactions"
    /\ block_number \in BlockRange(from_block, latest_block)
    /\ block_number \in DOMAIN chain.blocks
    /\ LET blk == chain.blocks[block_number] IN
         /\ calls' = Append(calls, [op |-> "get_block", arg |-> block_number, ok |-> TRUE])
         /\ IF blk.transactions = <<>>
              THEN /\ block_number' = block_number + 1
                   /\ pc' = "get_transactions"
              ELSE /\ block_number' = block_number
                   /\ pc' = "block_transactions"
         /\ block' = {blk}
         /\ tx_i' = 1
    /\ UNCHANGED <<chain, from_block, latest_block, transactions, logs, log_i,
                   logs_tether, views, q, output, error>>

\* line 30 raises (network error, unknown block): lines 31-32
FetchBlockFail ==
    /\ pc = "get_transactions"
    /\ block_number \in BlockRange(from_block, latest_block)
    /\ calls' = Append(calls, [op |-> "get_block", arg |-> block_number, ok |-> FALSE])
    /\ Raise([in |-> "get_transactions", what |-> "Error fetching block",
              block_number |-> block_number])
    /\ UNCHANGED <<chain, from_block, latest_block, block_number, block, tx_i,
                   transactions, logs, log_i, logs_tether, views, q, output>>

\* lines 36-51 for the transaction at tx_i: the receipt is served
FetchReceipt ==
    /\ pc = "block_transactions"
    /\ \E blk \in block :
         LET tx == blk.transactions[tx_i]
             tx_receipt == [gasUsed |-> tx.gasUsed]
         IN  /\ calls' = Append(calls, [op |-> "get_transaction_receipt",
                                        arg |-> tx.hash, ok |-> TRUE])
             /\ transactions' = AppendRecord(transactions,
                                    TxRecord(block_number, blk, tx, tx_receipt))
             /\ IF tx_i = Len(blk.transactions)
                  THEN /\ block_number' = block_number + 1
                       /\ pc' = "get_transactions"
                  ELSE /\ block_number' = block_number
                       /\ pc' = "block_transactions"
             /\ tx_i' = tx_i + 1
    /\ UNCHANGED <<chain, from_block, latest_block, block, logs, log_i,
                   logs_tether, views, q, output, error>>

\* line 36 raises: lines 52-53
FetchReceiptFail ==
    /\ pc = "block_transactions"
    /\ \E blk \in block :
         calls' = Append(calls, [op |-> "get_transaction_receipt",
                                 arg |-> blk.transactions[tx_i].hash, ok |-> FALSE])
    /\ Raise([in |-> "get_transactions",
              what |-> "Error fetching block transactions",
              block_number |-> block_number])
    /\ UNCHANGED <<chain, from_block, latest_block, block_number, block, tx_i,
                   transactions, logs, log_i, logs_tether, views, q, output>>

\* the range is exhausted: line 67 returns the DataFrame, and main registers
\* it as the view "transactions" (line 421)
ReturnTransactions ==
    /\ pc = "get_transactions"
    /\ block_number \notin BlockRange(from_block, latest_block)
    /\ views' = RegisterView("transactions", transactions)
    /\ pc' = "get_logs_tether"
    /\ UNCHANGED <<chain, from_block, latest_block, block_number, block, tx_i,
                   transactions, logs, log_i, logs_tether, q, output, error, calls>>

GetTransactionsNext ==
    \/ FetchBlock
    \/ FetchBlockFail
    \/ FetchReceipt
    \/ FetchReceiptFail
    \/ ReturnTransactions

\* the state in which main, or a caller, enters get_transactions(a, b)
AtGetTransactions(c, a, b) ==
    /\ chain = c
    /\ pc = "get_transactions"
    /\ from_block = a
    /\ latest_block = b
    /\ block_number = a
    /\ block = {}
    /\ tx_i = 1
    /\ transactions = <<>>
    /\ logs = <<>>
    /\ log_i = 1
    /\ logs_tether = <<>>
    /\ views = <<>>
    /\ q = 1
    /\ output = <<>>
    /\ error = {}
    /\ calls = <<>>

\* get_transactions on every range within 0..MaxBlock of every chain of
\* TxChains (a > b: the empty range)
InitTx == \E c \in TxChains : \E a \in 0..MaxBlock : \E b \in 0..MaxBlock :
              AtGetTransactions(c, a, b)

SpecTx == InitTx /\ [][GetTransactionsNext]_vars

-----------------------------------------------------------------------------
(* Claims about get_transactions *)

\* the number of transactions the node holds in block n
TxCount(n) == Len(chain.blocks[n].transactions)

\* the number of transactions in the blocks a..n-1
TxBefore(a, n) == SumSeq([k \in 1..(n - a) |-> TxCount(a + k - 1)])

\* C1: when get_transactions returns for a range a <= b (every fetch has
\* succeeded), the DataFrame holds exactly one record per transaction of the
\* blocks a..b: as many records as the blocks hold transactions, the record
\* of the i-th transaction of block n at position (transactions of a..n-1)
\* + i, carrying that transaction's data.
C1_OneRecordPerTransactionInOrder ==
    (pc = "get_logs_tether" /\ from_block <= latest_block) =>
        LET out == views["transactions"] IN
        /\ Len(out) = TxBefore(from_block, latest_block + 1)
        /\ \A n \in from_block..latest_block : \A i \in 1..TxCount(n) :
             LET r  == out[TxBefore(from_block, n) + i]
                 tx == chain.blocks[n].transactions[i]
             IN  /\ r.block_number = n
                 /\ r.timestamp = chain.blocks[n].timestamp
                 /\ r.transaction_hash = Hex(tx.hash)
                 /\ r.from_address = tx.from
                 /\ r.to_address = tx.to
                 /\ r.value = tx.value
                 /\ r.gas_used = tx.gasUsed

\* a range of several blocks, one of them empty and one holding two
\* transactions, has been extracted
C1_Witness ==
    /\ pc = "get_logs_tether"
    /\ from_block < latest_block
    /\ Len(views["transactions"]) >= 3
    /\ \E n \in from_block..latest_block : TxCount(n) = 0
    /\ \E n \in from_block..latest_block : TxCount(n) = 2

\* C2: a failed block or receipt fetch ends get_transactions with an error:
\* the run is in its raised state as soon as a call has failed, no
\* DataFrame has been handed to the caller and nothing has been shown, the
\* failed call is the last call made, and no call was made twice.
C2_FailureAbortsWholeRange ==
    /\ (\E k \in 1..Len(calls) : ~calls[k].ok) <=> pc = "raised"
    /\ pc = "raised" =>
        /\ error # {}
        /\ "transactions" \notin DOMAIN views
        /\ output = <<>>
        /\ \A k \in 1..Len(calls) : calls[k].ok <=> k < Len(calls)
        /\ \A j, k \in 1..Len(calls) :
             (calls[j].op = calls[k].op /\ calls[j].arg = calls[k].arg) => j = k

\* a receipt fetch failed after records had been accumulated and with
\* blocks of the range still to fetch
C2_Witness ==
    /\ pc = "raised"
    /\ transactions # <<>>
    /\ calls[Len(calls)].op = "get_transaction_receipt"
    /\ block_number < latest_block

-----------------------------------------------------------------------------
(* get_logs_tether *)

\* Web3.keccak(text="Transfer(address,address,uint256)")
KeccakTransfer ==
    <<221,242,82,173,27,226,200,155,105,194,176,104,252,55,141,170,
      149,43,167,241,99,196,161,22,40,245,90,77,245,35,179,239>>

\* line 75
transfer_event_signature == <<"0","x">> \o Hex(KeccakTransfer)

\* line 74: w3.to_checksum_address("0xdAC17F958D2ee523a2206206994597C13D831ec7")
contract_address == ChecksumTether

\* lines 77-82
FilterParams(a, b) ==
    [fromBlock |-> a, toBlock |-> b, address |-> contract_address,
     topics |-> <<transfer_event_signature>>]

\* eth_getLogs on the node: the logs of the block range emitted by the
\* address whose first topic is the one asked for, in chain order
MatchesFilter(log, params) ==
    /\ log.blockNumber \in params.fromBlock..params.toBlock
    /\ log.address = params.address
    /\ log.topics # <<>>
    /\ <<"0","x">> \o Hex(log.topics[1]) = params.topics[1]

RECURSIVE SelectLogs(_, _)
SelectLogs(ls, params) ==
    IF ls = <<>> THEN <<>>
    ELSE (IF MatchesFilter(Head(ls), params) THEN <<Head(ls)>> ELSE <<>>)
         \o SelectLogs(Tail(ls), params)

\* 10^k
RECURSIVE Pow10(_)
Pow10(k) == IF k = 0 THEN 1 ELSE 10 * Pow10(k - 1)

\* the decimal places of the unit 'mwei' (10^6) of from_wei, line 94
MweiDecimals == 6
\* the digits kept by round(..., 2), line 94
UsdtRoundDigits == 2
\* the hex digits of an address taken from a topic: [-40:], lines 101-102
AddressHexChars == 40

\* a Decimal: unscaled / 10^scale
\* w3.from_wei(n, 'mwei'): exact
FromWeiMwei(n) == [unscaled |-> n, scale |-> MweiDecimals]

\* round(d, digits) of a non-negative Decimal: ROUND_HALF_EVEN
RoundDecimal(d, digits) ==
    IF d.scale <= digits THEN d
    ELSE LET unit == Pow10(d.scale - digits)
             quo  == d.unscaled \div unit
             rem  == d.unscaled % unit
         IN  [unscaled |-> IF 2 * rem > unit \/ (2 * rem = unit /\ quo % 2 = 1)
                             THEN quo + 1 ELSE quo,
              scale |-> digits]

\* "0x" + topic.hex()[-40:]
TopicAddress(topic) == <<"0","x">> \o LastChars(Hex(topic), AddressHexChars)

\* the dict built for one log (lines 93-105); Decimal(str(d)) is d
LogRecord(log, block_info) ==
    LET value_in_wei == FromBytesBig(log.data)
        value_usdt == RoundDecimal(FromWeiMwei(value_in_wei), UsdtRoundDigits)
    IN  [block_number     |-> log.blockNumber,
         timestamp        |-> block_info.timestamp,
         from_address     |-> TopicAddress(log.topics[2]),
         to_address       |-> TopicAddress(log.topics[3]),
         value_usdt       |-> value_usdt,
         transaction_hash |-> Hex(log.transactionHash)]

\* lines 101-102 index topics[1] and topics[2]
Decodable(log) == Len(log.topics) >= 3

\* 10^32 - 5000 as a big-endian uint256: the least raw amount whose value
\* in mwei, rounded to 2 decimals, has more than the 28 digits of the
\* decimal context, so that round() of line 94 raises InvalidOperation
RoundLimit ==
    <<0, 0, 0, 0, 0, 0, 0, 0, 0, 0, 0, 0, 0, 0, 0, 0, 0, 0,
      4, 238, 45, 109, 65, 91, 133, 172, 239, 128, 255, 255, 236, 120>>

\* a < b for big-endian numbers of the same length
BytesBelow(a, b) ==
    \E k \in 1..Len(a) : /\ a[k] < b[k]
                         /\ \A j \in 1..(k - 1) : a[j] = b[j]

\* lines 93-95 succeed on the 32 bytes of data of the log
Roundable(log) == BytesBelow(log.data, RoundLimit)

\* line 85 succeeds
GetLogs ==
    /\ pc = "get_logs_tether"
    /\ LET params == FilterParams(from_block, latest_block) IN
         /\ logs' = SelectLogs(chain.logs, params)
         /\ calls' = Append(calls, [op |-> "get_logs",
                                    arg |-> <<params.fromBlock, params.toBlock>>,
                                    ok |-> TRUE])
    /\ log_i' = 1
    /\ logs_tether' = <<>>
    /\ pc' = "logs"
    /\ UNCHANGED <<chain, from_block, latest_block, block_number, block, tx_i,
                   transactions, views, q, output, error>>

\* an except clause that goes on with no logs instead of raising
GetLogsFailSwallowed ==
    /\ pc = "get_logs_tether"
    /\ calls' = Append(calls, [op |-> "get_logs",
                               arg |-> <<from_block, latest_block>>, ok |-> FALSE])
    /\ logs' = <<>>
    /\ log_i' = 1
    /\ logs_tether' = <<>>
    /\ pc' = "logs"
    /\ UNCHANGED <<chain, from_block, latest_block, block_number, block, tx_i,
                   transactions, views, q, output, error>>

\* line 85 raises: lines 86-87
GetLogsFail ==
    /\ pc = "get_logs_tether"
    /\ calls' = Append(calls, [op |-> "get_logs",
                               arg |-> <<from_block, latest_block>>, ok |-> FALSE])
    /\ Raise([in |-> "get_logs_tether", what |-> "Error fetching logs"])
    /\ UNCHANGED <<chain, from_block, latest_block, block_number, block, tx_i,
                   transactions, logs, log_i, logs_tether, views, q, output>>

\* lines 93-107 for the log at log_i: the block is served, the log decodes
ProcessLog ==
    /\ pc = "logs"
    /\ log_i <= Len(logs)
    /\ LET log == logs[log_i] IN
         /\ log.blockNumber \in DOMAIN chain.blocks
         /\ Roundable(log)
         /\ Decodable(log)
         /\ calls' = Append(calls, [op |-> "get_block", arg |-> log.blockNumber,
                                    ok |-> TRUE])
         /\ logs_tether' = Append(logs_tether,
                                  LogRecord(log, chain.blocks[log.blockNumber]))
    /\ log_i' = log_i + 1
    /\ UNCHANGED <<chain, pc, from_block, latest_block, block_number, block,
                   tx_i, transactions, logs, views, q, output, error>>

\* line 94 raises, before the block is asked for: lines 108-109
ProcessLogRoundFail ==
    /\ pc = "logs"
    /\ log_i <= Len(logs)
    /\ ~Roundable(logs[log_i])
    /\ Raise([in |-> "get_logs_tether", what |-> "Error processing log",
              log |-> log_i])
    /\ UNCHANGED <<chain, from_block, latest_block, block_number, block, tx_i,
                   transactions, logs, log_i, logs_tether, views, q, output,
                   calls>>

\* line 96 raises: lines 108-109
ProcessLogFetchFail ==
    /\ pc = "logs"
    /\ log_i <= Len(logs)
    /\ Roundable(logs[log_i])
    /\ calls' = Append(calls, [op |-> "get_block",
                               arg |-> logs[log_i].blockNumber, ok |-> FALSE])
    /\ Raise([in |-> "get_logs_tether", what |-> "Error processing log",
              log |-> log_i])
    /\ UNCHANGED <<chain, from_block, latest_block, block_number, block, tx_i,
                   transactions, logs, log_i, logs_tether, views, q, output>>

\* an except clause that drops the log and goes on with the next one
ProcessLogDecodeSkip ==
    /\ pc = "logs"
    /\ log_i <= Len(logs)
    /\ Roundable(logs[log_i])
    /\ ~Decodable(logs[log_i])
    /\ calls' = Append(calls, [op |-> "get_block",
                               arg |-> logs[log_i].blockNumber, ok |-> TRUE])
    /\ log_i' = log_i + 1
    /\ UNCHANGED <<chain, pc, from_block, latest_block, block_number, block,
                   tx_i, transactions, logs, logs_tether, views, q, output,
                   error>>

\* the block is served and line 101 or 102 raises (a topic is missing):
\* lines 108-109
ProcessLogDecodeFail ==
    /\ pc = "logs"
    /\ log_i <= Len(logs)
    /\ Roundable(logs[log_i])
    /\ ~Decodable(logs[log_i])
    /\ calls' = Append(calls, [op |-> "get_block",
                               arg |-> logs[log_i].blockNumber, ok |-> TRUE])
    /\ Raise([in |-> "get_logs_tether", what |-> "Error processing log",
              log |-> log_i])
    /\ UNCHANGED <<chain, from_block, latest_block, block_number, block, tx_i,
                   transactions, logs, log_i, logs_tether, views, q, output>>

\* the logs are exhausted: line 120 returns the DataFrame, and main
\* registers it as the view "logs_tether" (line 425)
ReturnLogs ==
    /\ pc = "logs"
    /\ log_i > Len(logs)
    /\ views' = RegisterView("logs_tether", logs_tether)
    /\ pc' = "join"
    /\ UNCHANGED <<chain, from_block, latest_block, block_number, block, tx_i,
                   transactions, logs, log_i, logs_tether, q, output, error,
                   calls>>

-----------------------------------------------------------------------------
(* main: the block window, the join *)

\* from_block = latest_block - 9, line 417
WindowBack == 9

\* lines 404-417: the session, the connection, the block window; the program
\* goes on whatever is_connected() says
MainWindow ==
    /\ pc = "main"
    /\ calls' = Append(calls, [op |-> "block_number", arg |-> 0, ok |-> TRUE])
    /\ latest_block' = chain.head
    /\ from_block' = chain.head - WindowBack
    /\ block_number' = chain.head - WindowBack
    /\ pc' = "get_transactions"
    /\ UNCHANGED <<chain, block, tx_i, transactions, logs, log_i, logs_tether,
                   views, q, output, error>>

\* w3.eth.block_number raises (line 416): nothing in main catches it
MainWindowFail ==
    /\ pc = "main"
    /\ calls' = Append(calls, [op |-> "block_number", arg |-> 0, ok |-> FALSE])
    /\ Raise([in |-> "main", what |-> "block_number"])
    /\ UNCHANGED <<chain, from_block, latest_block, block_number, block, tx_i,
                   transactions, logs, log_i, logs_tether, views, q, output>>

\* ROUND(x, d) of Spark on a non-negative number, half up, dropping the
\* last `dropped` decimal digits of x
SqlRound(x, dropped) == (x + Pow10(dropped) \div 2) \div Pow10(dropped)

\* from_utc_timestamp(FROM_UNIXTIME(ts), 'Europe/Madrid'), line 432: the
\* calendar time at UTC+1 (the summer-time hour is not modelled), counted
\* in seconds
MadridOffset == 3600
LocalTimestamp(ts) == ts + MadridOffset

\* the ON condition, lines 445-447
JoinMatch(t, l) ==
    /\ t.transaction_hash = l.transaction_hash
    /\ t.block_number = l.block_number
    /\ t.timestamp = l.timestamp

\* the SELECT list, lines 430-442; l is {} (no match) or {the log record}.
\* tx_value_eth is counted in 0.01 ETH, the gas price and fee in 1e-12 ETH
UnifiedRow(t, l) ==
    [block_number     |-> t.block_number,
     unix_timestamp   |-> t.timestamp,
     timestamp        |-> LocalTimestamp(t.timestamp),
     transaction_hash |-> t.transaction_hash,
     tx_from_address  |-> t.from_address,
     tx_to_address    |-> t.to_address,
     tx_value_eth     |-> SqlRound(t.value, 1),
     tx_gas_price_eth |-> SqlRound(t.gas_price, 1),
     tx_gas_used      |-> t.gas_used,
     tx_gas_fee_eth   |-> SqlRound(t.gas_fee, 1),
     log_from_address |-> {x.from_address : x \in l},
     log_to_address   |-> {x.to_address : x \in l},
     log_value_usdt   |-> {x.value_usdt : x \in l}]

\* the rows of one transaction in transactions LEFT JOIN logs_tether
LeftJoinRowsInner(t, ls) ==
    LET m == SelectSeq(ls, LAMBDA l : JoinMatch(t, l))
    IN  [j \in 1..Len(m) |-> UnifiedRow(t, {m[j]})]
LeftJoinRows(t, ls) ==
    LET m == SelectSeq(ls, LAMBDA l : JoinMatch(t, l))
    IN  IF m = <<>> THEN <<UnifiedRow(t, {})>>
        ELSE [j \in 1..Len(m) |-> UnifiedRow(t, {m[j]})]

\* lines 428-448.  Spark fixes no order of the rows of a join; the model
\* lists them by transaction, and by log within a transaction
TransactionsComplete(ts, ls) ==
    Flatten([k \in 1..Len(ts) |-> LeftJoinRows(ts[k], ls)])

\* lines 452-456: WHERE log_value_usdt IS NOT NULL
LogsTetherClean(rows) == SelectSeq(rows, LAMBDA r : r.log_value_usdt # {})

\* lines 428-457
Join ==
    /\ pc = "join"
    /\ LET complete == TransactionsComplete(views["transactions"],
                                            views["logs_tether"])
       IN  views' = ("df_transactions_complete" :> complete)
                    @@ ("df_logs_tether_clean" :> LogsTetherClean(complete))
                    @@ views
    /\ pc' = "report"
    /\ q' = 1
    /\ UNCHANGED <<chain, from_block, latest_block, block_number, block, tx_i,
                   transactions, logs, log_i, logs_tether, output, error, calls>>

-----------------------------------------------------------------------------
(* transactions_queries, tether_queries: the report *)

\* the queries in the order main runs them (lines 464 and 471)
Battery ==
    <<"total_transactions", "tx_value_eth_top_10", "duplicated_transaction_hash",
      "activity_peaks_top_10", "gas_fee_top_10", "mixers_use_from",
      "mixers_use_to", "time_between_blocks", "block_times_monitoring",
      "from_address_freq", "to_address_freq",
      "erc_20_total_transactions", "log_value_top_10",
      "log_activity_peaks_top_10", "log_from_address_freq",
      "log_to_address_freq", "gas_comparison", "burning">>

\* LIMIT 10, line 145
TopLimit == 10
\* time_diff_in_seconds > 12, line 269
AnomalySeconds == 12
\* time_between_blocks.show(10), line 259
ShowTimeRows == 10

\* the address literals of lines 198-202 and 218-222
Mixer1 == <<"0","x","5","f","4","b","5","e","8","e","6","8","9","4","e","7","b","9","4","b","9","b","0","d","7","b","2","8","b","8","0","1","1","c","1","8","c","0","4","e","1","d">>
Mixer2 == <<"0","x","8","f","a","7","a","7","e","8","f","7","9","d","3","d","e","8","8","f","8","f","3","c","f","e","6","9","3","2","5","4","2","5","f","9","4","c","1","2","c","f">>
Mixer3 == <<"0","x","0","e","8","3","c","9","f","1","e","c","5","f","9","d","7","a","0","2","8","b","9","6","3","9","0","7","f","4","9","0","b","3","0","7","0","9","d","1","2","c">>
Mixer4 == <<"0","x","9","d","1","f","5","2","2","d","5","8","6","9","c","9","b","7","a","d","8","6","4","a","2","9","e","b","6","e","9","f","5","7","a","1","7","0","d","0","4","9">>
Mixer5 == <<"0","x","3","9","c","c","e","c","c","9","e","b","c","c","4","a","d","3","1","3","2","a","9","9","8","9","3","b","2","8","d","7","c","8","9","0","8","1","0","1","4","9">>
MixerList == {Mixer1, Mixer2, Mixer3, Mixer4, Mixer5}

\* the literal of lines 394-395
ZeroAddress == <<"0","x">> \o [i \in 1..40 |-> "0"]

FirstN(rows, n) == IF Len(rows) <= n THEN rows ELSE SubSeq(rows, 1, n)

\* ORDER BY key DESC LIMIT n over the items S: Spark's sort is not stable
\* and fixes no order among equal keys, so every order of the items that is
\* descending in the key is a possible result
RECURSIVE DescOrders(_, _, _)
DescOrders(S, key, n) ==
    IF n = 0 \/ S = {} THEN {<<>>}
    ELSE LET best == {i \in S : \A j \in S : key[j] <= key[i]}
         IN  UNION {{<<i>> \o rest : rest \in DescOrders(S \ {i}, key, n - 1)} :
                    i \in best}

\* ORDER BY key ASC over items with distinct keys
RECURSIVE AscOrder(_, _)
AscOrder(S, key) ==
    IF S = {} THEN <<>>
    ELSE LET first == CHOOSE i \in S : \A j \in S : key[i] <= key[j]
         IN  <<first>> \o AscOrder(S \ {first}, key)

MaxOf(S) == CHOOSE x \in S : \A y \in S : y <= x

\* lines 135-146: the possible results
TxValueEthTop10Ascending(rows) ==
    LET key == [k \in 1..Len(rows) |-> 0 - rows[k].tx_value_eth]
    IN  {[j \in 1..Len(o) |->
            [block_number     |-> rows[o[j]].block_number,
             timestamp        |-> rows[o[j]].timestamp,
             transaction_hash |-> rows[o[j]].transaction_hash,
             tx_from_address  |-> rows[o[j]].tx_from_address,
             tx_to_address    |-> rows[o[j]].tx_to_address,
             tx_value_eth     |-> rows[o[j]].tx_value_eth]] :
         o \in DescOrders(1..Len(rows), key, TopLimit)}
TxValueEthTop10(rows) ==
    LET key == [k \in 1..Len(rows) |-> rows[k].tx_value_eth]
    IN  {[j \in 1..Len(o) |->
            [block_number     |-> rows[o[j]].block_number,
             timestamp        |-> rows[o[j]].timestamp,
             transaction_hash |-> rows[o[j]].transaction_hash,
             tx_from_address  |-> rows[o[j]].tx_from_address,
             tx_to_address    |-> rows[o[j]].tx_to_address,
             tx_value_eth     |-> rows[o[j]].tx_value_eth]] :
         o \in DescOrders(1..Len(rows), key, TopLimit)}

\* lines 191-206: WHERE tx_from_address IN (...) GROUP BY tx_from_address
\* ORDER BY n_transactions DESC; string comparison is case-sensitive
MixersUseFrom(rows) ==
    LET groups == {r.tx_from_address : r \in {rows[k] : k \in 1..Len(rows)}}
                  \cap MixerList
        n == [a \in groups |->
                Len(SelectSeq(rows, LAMBDA r : r.tx_from_address = a))]
    IN  {[j \in 1..Len(o) |-> [tx_from_address |-> o[j], n_transactions |-> n[o[j]]]] :
         o \in DescOrders(groups, n, Cardinality(groups))}

\* lines 211-226; a NULL tx_to_address is in no IN list
MixersUseTo(rows) ==
    LET groups == (UNION {r.tx_to_address : r \in {rows[k] : k \in 1..Len(rows)}})
                  \cap MixerList
        n == [a \in groups |->
                Len(SelectSeq(rows, LAMBDA r : r.tx_to_address = {a}))]
    IN  {[j \in 1..Len(o) |-> [tx_to_address |-> o[j], n_transactions |-> n[o[j]]]] :
         o \in DescOrders(groups, n, Cardinality(groups))}

\* lines 231-256: one row per (block_number, timestamp) with the greatest
\* unix_timestamp of the group, by ascending block_number; LAG gives the
\* row before, COALESCE 0 to the first row
TimeBetweenBlocksFromFirst(rows) ==
    LET all    == {rows[k] : k \in 1..Len(rows)}
        groups == {<<r.block_number, r.timestamp>> : r \in all}
        unix   == [g \in groups |->
                     MaxOf({r.unix_timestamp : r \in
                            {x \in all : <<x.block_number, x.timestamp>> = g}})]
        o      == AscOrder(groups, [g \in groups |-> g[1]])
    IN  [k \in 1..Len(o) |->
            [block_number        |-> o[k][1],
             timestamp           |-> o[k][2],
             unix_timestamp      |-> unix[o[k]],
             unix_prev_timestamp |-> IF k = 1 THEN {} ELSE {unix[o[1]]},
             time_diff_in_seconds |-> IF k = 1 THEN 0
                                      ELSE unix[o[k]] - unix[o[1]]]]
TimeBetweenBlocks(rows) ==
    LET all    == {rows[k] : k \in 1..Len(rows)}
        groups == {<<r.block_number, r.timestamp>> : r \in all}
        unix   == [g \in groups |->
                     MaxOf({r.unix_timestamp : r \in
                            {x \in all : <<x.block_number, x.timestamp>> = g}})]
        o      == AscOrder(groups, [g \in groups |-> g[1]])
    IN  [k \in 1..Len(o) |->
            [block_number        |-> o[k][1],
             timestamp           |-> o[k][2],
             unix_timestamp      |-> unix[o[k]],
             unix_prev_timestamp |-> IF k = 1 THEN {} ELSE {unix[o[k - 1]]},
             time_diff_in_seconds |-> IF k = 1 THEN 0
                                      ELSE unix[o[k]] - unix[o[k - 1]]]]

\* lines 262-270, over the view block_times
BlockTimesMonitoring(times) ==
    LET hit == SelectSeq(times, LAMBDA r : r.time_diff_in_seconds > AnomalySeconds)
    IN  [k \in 1..Len(hit) |->
            [block_number        |-> hit[k].block_number,
             timestamp           |-> hit[k].timestamp,
             unix_timestamp      |-> hit[k].unix_timestamp,
             unix_prev_timestamp |-> hit[k].unix_prev_timestamp]]

\* lines 391-396, over df_logs_tether_clean
BurningAnySender(rows) ==
    <<[n_burning_logs |->
        Len(SelectSeq(rows, LAMBDA r : r.log_to_address = {ZeroAddress}))]>>
Burning(rows) ==
    <<[n_burning_logs |->
        Len(SelectSeq(rows, LAMBDA r : /\ r.log_to_address = {ZeroAddress}
                                       /\ r.log_from_address # {}
                                       /\ r.log_from_address # {ZeroAddress}))]>>

\* the tables a query of the battery can give.  The rows of the queries no
\* property below reads (rankings by frequency, gas statistics) are not
\* computed
QueryResults(name) ==
    LET complete == views["df_transactions_complete"]
        clean    == views["df_logs_tether_clean"]
    IN  CASE name = "total_transactions" ->
                {<<[n_total_transactions |-> Len(complete)]>>}
          [] name = "tx_value_eth_top_10" -> TxValueEthTop10(complete)
          [] name = "mixers_use_from" -> MixersUseFrom(complete)
          [] name = "mixers_use_to" -> MixersUseTo(complete)
          [] name = "time_between_blocks" -> {TimeBetweenBlocks(complete)}
          [] name = "block_times_monitoring" ->
                {BlockTimesMonitoring(views["block_times"])}
          [] name = "erc_20_total_transactions" ->
                {<<[n_total_transactions |-> Len(clean)]>>}
          [] name = "burning" -> {Burning(clean)}
          [] OTHER -> {<<[rows_not_computed |-> TRUE]>>}

\* spark.sql(...) and .show() of the next query; time_between_blocks is
\* also registered as the view block_times (line 257) and shown to 10 rows
ShowQuery ==
    /\ pc = "report"
    /\ \E result \in QueryResults(Battery[q]) :
         /\ output' = Append(output,
                [name |-> Battery[q],
                 rows |-> IF Battery[q] = "time_between_blocks"
                            THEN FirstN(result, ShowTimeRows) ELSE result])
         /\ views' = IF Battery[q] = "time_between_blocks"
                       THEN RegisterView("block_times", result) ELSE views
    /\ q' = q + 1
    /\ pc' = IF q = Len(Battery) THEN "done" ELSE "report"
    /\ UNCHANGED <<chain, from_block, latest_block, block_number, block, tx_i,
                   transactions, logs, log_i, logs_tether, error, calls>>

\* the next query fails in the query engine (the session is lost, a job
\* fails): the exception leaves main
QueryFail ==
    /\ pc = "report"
    /\ Raise([in |-> "report", what |-> "QueryError", query |-> Battery[q]])
    /\ UNCHANGED <<chain, from_block, latest_block, block_number, block, tx_i,
                   transactions, logs, log_i, logs_tether, views, q, output,
                   calls>>

-----------------------------------------------------------------------------
(* The program *)

\* get_transactions, get_logs_tether, the join and the report, as main runs
\* them from line 420 on
PipelineNext ==
    \/ FetchBlock
    \/ FetchBlockFail
    \/ FetchReceipt
    \/ FetchReceiptFail
    \/ ReturnTransactions
    \/ GetLogs
    \/ GetLogsFail
    \/ ProcessLog
    \/ ProcessLogFetchFail
    \/ ReturnLogs
    \/ Join
    \/ ShowQuery
    \/ QueryFail

Next ==
    \/ MainWindow
    \/ MainWindowFail
    \/ PipelineNext
    \/ ProcessLogRoundFail
    \/ ProcessLogDecodeFail

\* the state in which the program starts
AtMain(c) ==
    /\ chain = c
    /\ pc = "main"
    /\ from_block = 0
    /\ latest_block = 0
    /\ block_number = 0
    /\ block = {}
    /\ tx_i = 1
    /\ transactions = <<>>
    /\ logs = <<>>
    /\ log_i = 1
    /\ logs_tether = <<>>
    /\ views = <<>>
    /\ q = 1
    /\ output = <<>>
    /\ error = {}
    /\ calls = <<>>

-----------------------------------------------------------------------------
(* Event logs of the chain *)

\* an address as the 32-byte topic of an indexed event argument
AddressTopic(bytes20) == [k \in 1..12 |-> 0] \o bytes20

\* a uint256 below 2^32 as the 32-byte data of an event
Uint256(n) ==
    [k \in 1..32 |-> IF k <= 28 THEN 0
                     ELSE IF k = 29 THEN (n \div 16777216) % 256
                     ELSE IF k = 30 THEN (n \div 65536) % 256
                     ELSE IF k = 31 THEN (n \div 256) % 256
                     ELSE n % 256]

ZeroBytes   == [k \in 1..20 |-> 0]
AaaBytes    == [k \in 1..20 |-> IF k = 19 THEN 10 ELSE IF k = 20 THEN 170 ELSE 0]
HolderBytes == [k \in 1..20 |-> 17 + k]

\* a Transfer(from, to, raw) log of the Tether contract emitted by the i-th
\* transaction of block n
TransferLog(n, i, from, to, raw) ==
    [blockNumber |-> n, transactionHash |-> TxHash(n, i),
     address |-> ChecksumTether,
     topics |-> <<KeccakTransfer, AddressTopic(from), AddressTopic(to)>>,
     data |-> Uint256(raw)]

\* a log of the Tether contract with the Transfer signature and no indexed
\* argument
MalformedLog(n, i) ==
    [blockNumber |-> n, transactionHash |-> TxHash(n, i),
     address |-> ChecksumTether, topics |-> <<KeccakTransfer>>,
     data |-> Uint256(1)]

\* a Transfer log of the Tether contract whose data is the uint256 RoundLimit
OversizedLog(n, i) ==
    [blockNumber |-> n, transactionHash |-> TxHash(n, i),
     address |-> ChecksumTether,
     topics |-> <<KeccakTransfer, AddressTopic(HolderBytes), AddressTopic(AaaBytes)>>,
     data |-> RoundLimit]

\* a Transfer log of another token contract
OtherTokenLog(n, i) ==
    [blockNumber |-> n, transactionHash |-> TxHash(n, i),
     address |-> ChecksumPlain,
     topics |-> <<KeccakTransfer, AddressTopic(HolderBytes), AddressTopic(AaaBytes)>>,
     data |-> Uint256(5000000)]

-----------------------------------------------------------------------------
(* The whole program on a chain whose head is at block 9 or 10 *)

\* blocks 12 s apart; every third block holds one transaction, block 4 two;
\* the transaction of block 6 emits a Tether Transfer, that of block 3 a
\* Transfer of another token; with malformed = 1, the second transaction of
\* block 4 emits a Tether log that cannot be decoded, and with malformed = 2
\* one whose amount cannot be rounded
MainChain(head, malformed) ==
    Chain(head,
          [n \in 0..head |-> 1700000000 + 12 * n],
          [n \in 0..head |->
             [i \in 1..(IF n = 4 THEN 2 ELSE IF n % 3 = 0 THEN 1 ELSE 0) |->
                ChainTx(n, i, ChecksumX, {ChecksumY}, 100 * n + 10 * i)]],
          <<OtherTokenLog(3, 1)>>
          \o (IF malformed = 1 THEN <<MalformedLog(4, 2)>>
              ELSE IF malformed = 2 THEN <<OversizedLog(4, 2)>> ELSE <<>>)
          \o <<TransferLog(6, 1, HolderBytes, AaaBytes, 2500000)>>)

Init == \E head \in {WindowBack, WindowBack + 1} : \E malformed \in 0..2 :
            AtMain(MainChain(head, malformed))

Spec == Init /\ [][Next]_vars

-----------------------------------------------------------------------------
(* Claims about main as a whole *)

\* C5 as stated: no run has shown one or more report tables and then ended
\* with an error.
C5_NoTableBeforeAnError ==
    pc = "raised" => output = <<>>

\* C5 as amended: the tables shown are always the first tables of the
\* battery, in its order; a failed call to the chain client or a log that
\* does not decode ends the run at once with no table shown; a failed query
\* ends the run with exactly the tables of the queries before it shown; and a
\* run that ends without an error has shown the table of every query.
C5_FailureBeforeReportOrAtAQuery ==
    /\ Len(output) <= Len(Battery)
    /\ \A k \in 1..Len(output) : output[k].name = Battery[k]
    /\ (\E k \in 1..Len(calls) : ~calls[k].ok) => (pc = "raised" /\ output = <<>>)
    /\ \A e \in error :
         /\ pc = "raised"
         /\ e.in # "report" => output = <<>>
         /\ e.in = "report" => e.query = Battery[Len(output) + 1]
    /\ pc = "raised" => error # {}
    /\ pc = "done" => (error = {} /\ Len(output) = Len(Battery))
    /\ output # <<>> => {"df_transactions_complete", "df_logs_tether_clean"}
                            \subseteq DOMAIN views

\* a query failed after several tables had been shown
C5_Witness ==
    /\ pc = "raised"
    /\ Len(output) >= 2
    /\ \E e \in error : e.in = "report"

-----------------------------------------------------------------------------
(* The join on chains whose transactions emit 0..MaxLogsPerTx Transfer logs *)

\* the transactions of the chain: <<block, index in the block>>
JoinTxs == <<<<0, 1>>, <<0, 2>>, <<1, 1>>>>

\* blocks 0 and 1 holding the transactions JoinTxs; the k-th of them emits
\* lc[k] Tether Transfer logs
JoinChain(lc) ==
    Chain(1,
          [n \in 0..1 |-> 1700000000 + 12 * n],
          [n \in 0..1 |->
             [i \in 1..(2 - n) |->
                ChainTx(n, i, ChecksumX, {ChecksumY}, 100 * n + 10 * i)]],
          Flatten([k \in 1..Len(JoinTxs) |->
             [j \in 1..lc[k] |->
                TransferLog(JoinTxs[k][1], JoinTxs[k][2], HolderBytes, AaaBytes,
                            1000000 * j + 10000 * k)]]))

InitJoin == \E lc \in [1..Len(JoinTxs) -> 0..MaxLogsPerTx] :
                AtGetTransactions(JoinChain(lc), 0, 1)

SpecJoin == InitJoin /\ [][PipelineNext]_vars

Joined == "df_transactions_complete" \in DOMAIN views

\* the unified rows made from the transaction record t
RowsOf(t) ==
    SelectSeq(views["df_transactions_complete"],
              LAMBDA r : /\ r.block_number = t.block_number
                         /\ r.unix_timestamp = t.timestamp
                         /\ r.transaction_hash = t.transaction_hash)

\* the transfer-log records equal to t on (block_number, timestamp,
\* transaction_hash)
LogsOf(t) ==
    SelectSeq(views["logs_tether"],
              LAMBDA l : /\ l.block_number = t.block_number
                         /\ l.timestamp = t.timestamp
                         /\ l.transaction_hash = t.transaction_hash)

TokenFieldsNull(r) ==
    r.log_from_address = {} /\ r.log_to_address = {} /\ r.log_value_usdt = {}

TokenFieldsPresent(r) ==
    r.log_from_address # {} /\ r.log_to_address # {} /\ r.log_value_usdt # {}

\* C3: once joined, every transaction record has at least one unified row;
\* a transaction record with no transfer-log record equal on (block_number,
\* timestamp, transaction_hash) has exactly one, with its three token fields
\* null; and df_logs_tether_clean is exactly the unified rows whose token
\* fields are non-null (the other rows have all three null).
C3_LeftJoinAndTokenOnly ==
    Joined =>
        LET ts       == views["transactions"]
            complete == views["df_transactions_complete"]
            clean    == views["df_logs_tether_clean"]
        IN  /\ \A k \in 1..Len(ts) :
                 /\ Len(RowsOf(ts[k])) >= 1
                 /\ LogsOf(ts[k]) = <<>> =>
                      /\ Len(RowsOf(ts[k])) = 1
                      /\ TokenFieldsNull(RowsOf(ts[k])[1])
            /\ clean = SelectSeq(complete, TokenFieldsPresent)
            /\ \A k \in 1..Len(complete) :
                 TokenFieldsPresent(complete[k]) \/ TokenFieldsNull(complete[k])

\* joined: one transaction without a transfer log, one with
C3_Witness ==
    /\ Joined
    /\ \E k \in 1..Len(views["transactions"]) :
         LogsOf(views["transactions"][k]) = <<>>
    /\ \E k \in 1..Len(views["transactions"]) :
         LogsOf(views["transactions"][k]) # <<>>
    /\ views["df_logs_tether_clean"] # <<>>
    /\ views["df_logs_tether_clean"] # views["df_transactions_complete"]

\* C4 as stated: the unified dataset holds exactly one row per transaction
\* record, each matched by at most one transfer-log record.
C4_OneRowPerTransaction ==
    Joined =>
        /\ Len(views["df_transactions_complete"]) = Len(views["transactions"])
        /\ \A k \in 1..Len(views["transactions"]) :
             /\ Len(LogsOf(views["transactions"][k])) <= 1
             /\ Len(RowsOf(views["transactions"][k])) = 1

-----------------------------------------------------------------------------
(* The token amount of a Transfer log *)

\* one block, one transaction, one Tether Transfer of `raw` token units
UnitsChain(raw) ==
    Chain(0,
          [n \in 0..0 |-> 1700000000],
          [n \in 0..0 |-> <<ChainTx(0, 1, ChecksumX, {ChecksumY}, 10)>>],
          <<TransferLog(0, 1, HolderBytes, AaaBytes, raw)>>)

RawAmounts == {2500 * k + d : k \in 0..MaxRawSteps, d \in {0, 1}}

InitUnits == \E raw \in RawAmounts : AtGetTransactions(UnitsChain(raw), 0, 0)

SpecUnits == InitUnits /\ [][PipelineNext]_vars

\* C6 as stated: the value_usdt of every record get_logs_tether returns,
\* multiplied by 10^6, is the raw integer amount of the log's data.
C6_ValueRoundTrips ==
    "logs_tether" \in DOMAIN views =>
        \A k \in 1..Len(views["logs_tether"]) :
            LET v == views["logs_tether"][k].value_usdt
            IN  v.unscaled * 1000000 = FromBytesBig(logs[k].data) * Pow10(v.scale)

-----------------------------------------------------------------------------
(* The time-between-blocks report *)

RECURSIVE TimestampAt(_, _)
TimestampAt(gaps, n) == IF n = 0 THEN 100 ELSE TimestampAt(gaps, n - 1) + gaps[n]

\* blocks 0..MaxTimeBlock, block n mined gaps[n] seconds after block n-1;
\* block 1 holds two transactions, block `empty` none, the others one; the
\* first transaction of block 1 emits a Tether Transfer
TimesChain(gaps, empty) ==
    Chain(MaxTimeBlock,
          [n \in 0..MaxTimeBlock |-> TimestampAt(gaps, n)],
          [n \in 0..MaxTimeBlock |->
             [i \in 1..(IF n = empty THEN 0 ELSE IF n = 1 THEN 2 ELSE 1) |->
                ChainTx(n, i, ChecksumX, {ChecksumY}, 100 * n + 10 * i)]],
          IF empty = 1 THEN <<>>
          ELSE <<TransferLog(1, 1, AaaBytes, HolderBytes, 1000000)>>)

\* empty = MaxTimeBlock + 1: every block holds a transaction
InitTimes == \E gaps \in [1..MaxTimeBlock -> {1, 5, 12, 25}] :
             \E empty \in 0..(MaxTimeBlock + 1) :
                AtGetTransactions(TimesChain(gaps, empty), 0, MaxTimeBlock)

SpecTimes == InitTimes /\ [][PipelineNext]_vars

\* the blocks of the range that have a row in the unified dataset
ReportedBlocks == {n \in from_block..latest_block : TxCount(n) > 0}

\* C7: the time-between-blocks report has one row per block of the unified
\* dataset, in ascending block number, with the block's epoch timestamp; the
\* first row's time_diff_in_seconds is 0 and every other row's is its epoch
\* timestamp minus that of the row before it; and the monitoring query
\* lists, in the same order, exactly the rows whose difference exceeds 12.
C7_TimeBetweenBlocks ==
    "block_times" \in DOMAIN views =>
        LET rep == views["block_times"] IN
        /\ Len(rep) = Cardinality(ReportedBlocks)
        /\ \A k \in 1..Len(rep) :
             /\ rep[k].block_number \in ReportedBlocks
             /\ rep[k].unix_timestamp = chain.blocks[rep[k].block_number].timestamp
             /\ k > 1 => rep[k - 1].block_number < rep[k].block_number
             /\ rep[k].time_diff_in_seconds =
                    IF k = 1 THEN 0
                    ELSE chain.blocks[rep[k].block_number].timestamp
                         - chain.blocks[rep[k - 1].block_number].timestamp
        /\ \A j \in 1..Len(output) :
             output[j].name = "block_times_monitoring" =>
                [k \in 1..Len(output[j].rows) |-> output[j].rows[k].block_number]
                = LET late == SelectSeq(rep, LAMBDA r : r.time_diff_in_seconds > 12)
                  IN  [k \in 1..Len(late) |-> late[k].block_number]

\* blocks with the epoch timestamps 100, 105, 130, 131: the differences are
\* 0, 5, 25, 1 and the monitoring query has listed the 25-second block only
C7_Witness ==
    /\ "block_times" \in DOMAIN views
    /\ Len(views["block_times"]) = 4
    /\ [k \in 1..4 |-> views["block_times"][k].unix_timestamp] = <<100, 105, 130, 131>>
    /\ [k \in 1..4 |-> views["block_times"][k].time_diff_in_seconds] = <<0, 5, 25, 1>>
    /\ \E j \in 1..Len(output) :
         /\ output[j].name = "block_times_monitoring"
         /\ Len(output[j].rows) = 1
         /\ output[j].rows[1].unix_timestamp = 130

-----------------------------------------------------------------------------
(* The watch-list reports *)

\* one block of MaxMixerTxs transactions, the i-th sent by from[i]; its
\* receiver is the sender of the transaction MaxMixerTxs + 1 - i, and none
\* (a contract creation) when that one is not of the watch list; the first
\* transaction emits a Tether Transfer
MixersChain(from) ==
    Chain(0,
          [n \in 0..0 |-> 1700000000],
          [n \in 0..0 |->
             [i \in 1..MaxMixerTxs |->
                ChainTx(0, i, from[i],
                        IF from[MaxMixerTxs + 1 - i] = ChecksumPlain THEN {}
                        ELSE {from[MaxMixerTxs + 1 - i]},
                        100 + 10 * i)]],
          <<TransferLog(0, 1, AaaBytes, HolderBytes, 1000000)>>)

InitMixers == \E from \in [1..MaxMixerTxs -> {ChecksumX, ChecksumY, ChecksumPlain}] :
                 AtGetTransactions(MixersChain(from), 0, 0)

SpecMixers == InitMixers /\ [][PipelineNext]_vars

\* an address whatever the case of its hex digits
LowerChar(c) ==
    CASE c = "A" -> "a" [] c = "B" -> "b" [] c = "C" -> "c"
      [] c = "D" -> "d" [] c = "E" -> "e" [] c = "F" -> "f" [] OTHER -> c
ToLower(str) == [k \in 1..Len(str) |-> LowerChar(str[k])]

\* the count a watch-list report gives the address w: 0 when it has no row
ReportedCount(rows, col, w) ==
    LET hit == SelectSeq(rows, LAMBDA r : ToLower(r[col]) = w)
    IN  IF hit = <<>> THEN 0 ELSE hit[1].n_transactions

\* C8 as stated: the from-address mixer report gives every watch-list
\* address the number of unified rows whose sender is that address (one row
\* per address that has any), by descending count; the receiver report does
\* the same for tx_to_address.
C8_WatchListCounts ==
    \A j \in 1..Len(output) :
        LET complete == views["df_transactions_complete"]
            rows == output[j].rows
        IN  /\ output[j].name = "mixers_use_from" =>
                 /\ \A w \in MixerList :
                      ReportedCount(rows, "tx_from_address", w) =
                        Len(SelectSeq(complete,
                                LAMBDA r : ToLower(r.tx_from_address) = w))
                 /\ \A k \in 2..Len(rows) :
                      rows[k - 1].n_transactions >= rows[k].n_transactions
            /\ output[j].name = "mixers_use_to" =>
                 /\ \A w \in MixerList :
                      ReportedCount(rows, "tx_to_address", w) =
                        Len(SelectSeq(complete,
                                LAMBDA r : \E a \in r.tx_to_address : ToLower(a) = w))
                 /\ \A k \in 2..Len(rows) :
                      rows[k - 1].n_transactions >= rows[k].n_transactions

-----------------------------------------------------------------------------
(* The top-10-by-value report *)

\* one block of 10 + MaxExtraRows transactions whose values are 0.1 ETH
\* apart, but that the transaction after the tie-th carries 0.003 ETH more
\* than the tie-th: the two round to the same tx_value_eth (tie = 0: no
\* two values round to the same); the values ascend or descend; the first
\* transaction emits a Tether Transfer
TopChain(tie, ascending) ==
    LET n == TopLimit + MaxExtraRows
        v == [k \in 1..n |-> IF k = tie + 1 /\ tie > 0 THEN 100 * tie + 3
                             ELSE 100 * k]
    IN  Chain(0,
              [b \in 0..0 |-> 1700000000],
              [b \in 0..0 |->
                 [i \in 1..n |->
                    ChainTx(0, i, ChecksumX, {ChecksumY},
                            IF ascending THEN v[i] ELSE v[n + 1 - i])]],
              <<TransferLog(0, 1, AaaBytes, HolderBytes, 1000000)>>)

InitTop == \E tie \in 0..(TopLimit + MaxExtraRows - 1) : \E ascending \in BOOLEAN :
               AtGetTransactions(TopChain(tie, ascending), 0, 0)

SpecTop == InitTop /\ [][PipelineNext]_vars

\* the columns the report selects
TopColumns(r) ==
    [block_number     |-> r.block_number,
     timestamp        |-> r.timestamp,
     transaction_hash |-> r.transaction_hash,
     tx_from_address  |-> r.tx_from_address,
     tx_to_address    |-> r.tx_to_address,
     tx_value_eth     |-> r.tx_value_eth]

\* the first n rows under a stable descending sort on tx_value_eth: a row
\* comes before another when its value is greater, or equal and it is
\* earlier in the input
StableTop(rows, n) ==
    LET before(j, k) == \/ rows[j].tx_value_eth > rows[k].tx_value_eth
                        \/ /\ rows[j].tx_value_eth = rows[k].tx_value_eth
                           /\ j < k
        rank(k) == 1 + Cardinality({j \in 1..Len(rows) : before(j, k)})
        len == IF Len(rows) <= n THEN Len(rows) ELSE n
    IN  [p \in 1..len |-> TopColumns(rows[CHOOSE k \in 1..Len(rows) : rank(k) = p])]

\* C9 as stated: the top-10-by-value report is the first 10 rows of the
\* unified dataset under a stable descending sort on the value (equal values
\* in input order), hence the same on every run.
C9_StableTop10 ==
    \A j \in 1..Len(output) :
        output[j].name = "tx_value_eth_top_10" =>
            output[j].rows = StableTop(views["df_transactions_complete"], 10)

\* C9 as amended: the report holds min(10, rows) distinct rows of the unified
\* dataset, by descending tx_value_eth (the value rounded to 2 decimals), and
\* no row left out has a greater tx_value_eth than a row of the report; the
\* order among rows of equal tx_value_eth is not fixed.
C9_Top10ByRoundedValue ==
    \A j \in 1..Len(output) :
        output[j].name = "tx_value_eth_top_10" =>
            LET complete == views["df_transactions_complete"]
                rows == output[j].rows
                all  == {TopColumns(complete[k]) : k \in 1..Len(complete)}
                kept == {rows[k] : k \in 1..Len(rows)}
            IN  /\ Len(rows) = IF Len(complete) <= 10 THEN Len(complete) ELSE 10
                /\ kept \subseteq all
                /\ Cardinality(kept) = Len(rows)
                /\ \A k \in 2..Len(rows) :
                     rows[k - 1].tx_value_eth >= rows[k].tx_value_eth
                /\ \A r \in all \ kept : \A s \in kept :
                     r.tx_value_eth <= s.tx_value_eth

\* more than 10 rows, two of them of equal tx_value_eth, and the report
\* lists these two against their input order
C9_Witness ==
    \E j \in 1..Len(output) :
        /\ output[j].name = "tx_value_eth_top_10"
        /\ Len(views["df_transactions_complete"]) > 10
        /\ Len(output[j].rows) = 10
        /\ output[j].rows # StableTop(views["df_transactions_complete"], 10)

-----------------------------------------------------------------------------
(* The burn query *)

BurnParties == {AaaBytes, ZeroBytes, HolderBytes}

\* one block of MaxBurnLogs transactions, the i-th emitting one Tether
\* Transfer from from[i] to to[i]
BurnChain(from, to) ==
    Chain(0,
          [n \in 0..0 |-> 1700000000],
          [n \in 0..0 |->
             [i \in 1..MaxBurnLogs |->
                ChainTx(0, i, ChecksumX, {ChecksumTether}, 100 + 10 * i)]],
          [i \in 1..MaxBurnLogs |-> TransferLog(0, i, from[i], to[i], 1000000 * i)])

InitBurn == \E from \in [1..MaxBurnLogs -> BurnParties] :
            \E to \in [1..MaxBurnLogs -> BurnParties] :
                AtGetTransactions(BurnChain(from, to), 0, 0)

SpecBurn == InitBurn /\ [][PipelineNext]_vars

\* the 20-byte address an indexed topic carries
TopicBytes(topic) == SubSeq(topic, 13, 32)

\* the Transfer logs of the chain sent by a non-zero address to the zero
\* address, and those sent by the zero address to itself
BurnLogs ==
    SelectSeq(chain.logs, LAMBDA l : /\ TopicBytes(l.topics[3]) = ZeroBytes
                                     /\ TopicBytes(l.topics[2]) # ZeroBytes)
ZeroToZeroLogs ==
    SelectSeq(chain.logs, LAMBDA l : /\ TopicBytes(l.topics[3]) = ZeroBytes
                                     /\ TopicBytes(l.topics[2]) = ZeroBytes)

\* C10: the burn query counts exactly the rows of df_logs_tether_clean whose
\* token receiver is the zero address and whose token sender is not: with
\* one such row per Transfer log, the number of Transfer logs of the chain
\* from a non-zero address to the zero address.
C10_BurnCount ==
    \A j \in 1..Len(output) :
        output[j].name = "burning" =>
            /\ Len(views["df_logs_tether_clean"]) = Len(chain.logs)
            /\ output[j].rows = <<[n_burning_logs |-> Len(BurnLogs)]>>

\* a transfer from 0x...0aaa to the zero address and a transfer from the
\* zero address to itself: the count is 1
C10_Witness ==
    \E j \in 1..Len(output) :
        /\ output[j].name = "burning"
        /\ Len(BurnLogs) = 1
        /\ TopicBytes(BurnLogs[1].topics[2]) = AaaBytes
        /\ Len(ZeroToZeroLogs) = 1
        /\ output[j].rows[1].n_burning_logs = 1

-----------------------------------------------------------------------------
(* The extraction of the logs, call by call *)

LogKinds == {"transfer", "no_topics", "oversized", "other_token"}

\* the log of that kind emitted by the i-th transaction of block n
LogOfKind(kind, n, i) ==
    CASE kind = "transfer"    -> TransferLog(n, i, HolderBytes, AaaBytes, 1000000 * i)
      [] kind = "no_topics"   -> MalformedLog(n, i)
      [] kind = "oversized"   -> OversizedLog(n, i)
      [] kind = "other_token" -> OtherTokenLog(n, i)

\* blocks 0 and 1 of MaxFilterLogs transactions each; the chain holds
\* MaxFilterLogs logs, the k-th of the kind kinds[k] and emitted by the k-th
\* transaction of block 0 when k <= split, of block 1 otherwise
LogsChain(kinds, split) ==
    Chain(1,
          [n \in 0..1 |-> 1700000000 + 12 * n],
          [n \in 0..1 |->
             [i \in 1..MaxFilterLogs |->
                ChainTx(n, i, ChecksumX, {ChecksumTether},
                        100 + 10 * (MaxFilterLogs * n + i))]],
          [k \in 1..MaxFilterLogs |->
             LogOfKind(kinds[k], IF k <= split THEN 0 ELSE 1, k)])

\* the range is the two blocks, or block 1 alone
InitLogs == \E kinds \in [1..MaxFilterLogs -> LogKinds] :
            \E split \in 0..MaxFilterLogs :
            \E a \in 0..1 :
                AtGetTransactions(LogsChain(kinds, split), a, 1)

LogsNext ==
    \/ PipelineNext
    \/ ProcessLogRoundFail
    \/ ProcessLogDecodeFail

SpecLogs == InitLogs /\ [][LogsNext]_vars

\* the positions of the log-filter queries among the calls made so far
FilterQueries == {k \in 1..Len(calls) : calls[k].op = "get_logs"}

\* the calls made after the call at position g
CallsAfter(g) == SubSeq(calls, g + 1, Len(calls))

\* get_logs_tether has returned its records
LogsReturned == "logs_tether" \in DOMAIN views

\* C11: get_logs_tether issues one log-filter query, for the range; then one
\* block lookup per returned log, in returned order and for that log's
\* block, with one record per log in that order; and when the filter query,
\* a block lookup or the decoding of a log fails, the run ends with an error,
\* no records are returned and no later log is looked up or recorded.
C11_OneQueryThenOneLookupPerLog ==
    /\ Cardinality(FilterQueries) <= 1
    /\ pc \in {"get_transactions", "get_logs_tether"} => FilterQueries = {}
    /\ pc \in {"logs", "join", "report", "done"} => FilterQueries # {}
    /\ \A g \in FilterQueries :
         LET lookups == CallsAfter(g)
             m == Len(lookups)
         IN  /\ calls[g].arg = <<from_block, latest_block>>
             /\ ~calls[g].ok => /\ m = 0
                                /\ pc = "raised"
                                /\ ~LogsReturned
             /\ calls[g].ok =>
                  /\ m <= Len(logs)
                  /\ \A k \in 1..m :
                       /\ lookups[k].op = "get_block"
                       /\ lookups[k].arg = logs[k].blockNumber
                       /\ k < m => lookups[k].ok
                  /\ Len(logs_tether) <= m
                  /\ \A k \in 1..Len(logs_tether) :
                       /\ logs_tether[k].transaction_hash = Hex(logs[k].transactionHash)
                       /\ logs_tether[k].block_number = logs[k].blockNumber
                       /\ logs_tether[k].timestamp =
                              chain.blocks[logs[k].blockNumber].timestamp
                       /\ Roundable(logs[k])
                       /\ Decodable(logs[k])
                  /\ pc = "logs" => /\ m = log_i - 1
                                    /\ Len(logs_tether) = m
                                    /\ \A k \in 1..m : lookups[k].ok
                  /\ LogsReturned => /\ m = Len(logs)
                                     /\ \A k \in 1..m : lookups[k].ok
                                     /\ Len(logs_tether) = Len(logs)
                                     /\ views["logs_tether"] = logs_tether
                  /\ (\E k \in 1..m : ~lookups[k].ok) => pc = "raised"
                  /\ (\E k \in 1..m : ~Decodable(logs[k])) => pc = "raised"
                  /\ \A k \in 1..Len(logs) :
                       ~Roundable(logs[k]) => m < k
                  /\ \A e \in error :
                       e.in = "get_logs_tether" =>
                           /\ pc = "raised"
                           /\ ~LogsReturned
                           /\ output = <<>>
                           /\ Len(logs_tether) = e.log - 1
                           /\ m \in {e.log - 1, e.log}

\* three logs returned, the second of which has no topic to decode: its
\* block was looked up, the run has ended with the error, the record of the
\* first log is not returned and the third log was not looked up
C11_Witness ==
    /\ pc = "raised"
    /\ Len(logs) = 3
    /\ ~Decodable(logs[2])
    /\ \E e \in error : e.in = "get_logs_tether"
    /\ \E g \in FilterQueries : Len(CallsAfter(g)) = 2
    /\ Len(logs_tether) = 1
    /\ ~LogsReturned

=============================================================================
